---- MODULE Spec2Model ----
(***************************************************************************)
(* Burnout Covenant StreamKit: the EventSub subscription manager           *)
(* (EventSubManager: ensureSubscription, scheduleRenewal, makeKey,         *)
(* loadState, saveState) and the chat command dispatcher (ChatBot:         *)
(* registerCommand, getRole, handleMessage).                               *)
(*                                                                         *)
(* Representation.  A JavaScript object is a sequence of <<key, value>>    *)
(* pairs in insertion order (the order JSON.stringify emits and            *)
(* JSON.parse rebuilds).  A string that the code takes apart (a chat       *)
(* message, a command name) is a sequence of one-character strings.  A     *)
(* timestamp is a number of milliseconds; an ISO date string is the        *)
(* record [iso |-> ms] and new Date(s).getTime() reads it back.  The state *)
(* file is a sequence of tokens: "{", one token per entry, "}".            *)
(***************************************************************************)
EXTENDS Integers, Sequences, FiniteSets, Bags, TLC

VARIABLES
    now,        \* Date.now(), in ms
    disk,       \* the state file: [exists, text]
    calls,      \* the ensureSubscription runs, one per slot
    timers,     \* the pending setTimeout callbacks (a bag)
    explicit,   \* number of caller-initiated ensureSubscription calls so far
    ensured,    \* keys for which some ensureSubscription run has succeeded
    commands,   \* ChatBot.commands: lowercased name -> {handler, options}
    lastRun,    \* ChatBot.lastRun: user-command key -> last timestamp
    accepted,   \* history: (user id, lowercased name) -> time of the last handler
                \* run, for commands that have a cooldown
    registered, \* history: number of registerCommand calls so far
    regLog,     \* history: the registerCommand calls so far, in order
    env,        \* process.env, as the fromEnv factories read it
    last        \* the operation that made the last step, with its outcome

vars == <<now, disk, calls, timers, explicit, ensured,
          commands, lastRun, accepted, registered, regLog, env, last>>

subVars  == <<disk, calls, timers, explicit, ensured>>
chatVars == <<commands, lastRun, accepted, registered, regLog, env>>

-----------------------------------------------------------------------------
(* Bounds *)

StartMs     == 1000000   \* Date.now() when the process starts
TickMs      == 30000     \* granularity of the clock in the manager's runs
MaxTicks    == 2         \* the clock stops after this many ticks
MaxExplicit == 2         \* caller-initiated ensureSubscription calls
ChatTickMs  == 500       \* granularity of the clock in the dispatcher
MaxChatTicks == 2        \* the dispatcher's clock stops after this many ticks
MaxRegister == 2         \* registerCommand calls

(* Program constants *)

LeadTimeMs == 60000      \* 60 * 1000

Slots    == {1, 2}             \* ensureSubscription runs that may be in flight together
MaxTime  == StartMs + MaxTicks * TickMs
Ids      == {"sub1"}
TTLs     == {120000}             \* expires_at - now of a new subscription

None == "none"

Max(a, b) == IF a >= b THEN a ELSE b

-----------------------------------------------------------------------------
(* JavaScript objects as insertion-ordered sequences of <<key, value>> *)

EmptyObj == << >>

ObjKeys(o) == {o[i][1] : i \in 1..Len(o)}

ObjHas(o, k) == k \in ObjKeys(o)

ObjGet(o, k) == o[CHOOSE i \in 1..Len(o) : o[i][1] = k][2]

\* o[k] = v : an existing key keeps its place, a new key goes last
ObjSet(o, k, v) ==
    IF ObjHas(o, k)
    THEN [i \in 1..Len(o) |-> IF o[i][1] = k THEN <<k, v>> ELSE o[i]]
    ELSE Append(o, <<k, v>>)

\* the set of key/value pairs of an object, whatever their order
ObjPairs(o) == {o[i] : i \in 1..Len(o)}

-----------------------------------------------------------------------------
(* Inputs of ensureSubscription *)

CondBM == << <<"broadcaster_user_id", "1">>, <<"moderator_user_id", "2">> >>
CondMB == << <<"moderator_user_id", "2">>, <<"broadcaster_user_id", "1">> >>
CondB  == << <<"broadcaster_user_id", "1">> >>

Args(t, c) == [type |-> t, condition |-> c, callback |-> "cb", secret |-> "secret"]

ArgSets == { Args("channel.follow", CondBM),
             Args("channel.follow", CondMB) }

LiveArgSets == { Args("stream.online", CondB) }

-----------------------------------------------------------------------------
(* Dates, keys and the state file *)

\* new Date(s).getTime() of the ISO string s
GetTime(s) == s.iso

\* Date.toISOString() of the time ms
ToISO(ms) == [iso |-> ms]

\* JSON.stringify(condition): the properties in insertion order
JSONstringify(condition) ==
    <<"{">> \o [i \in 1..(2 * Len(condition)) |->
                    condition[(i + 1) \div 2][IF i % 2 = 1 THEN 1 ELSE 2]]
            \o <<"}">>

makeKey(type, condition) == <<type, ":">> \o JSONstringify(condition)

\* JSON.stringify(state, null, 2): one token per entry between the braces
StringifyState(state) ==
    <<[t |-> "{"]>>
      \o [i \in 1..Len(state) |-> [t |-> "entry", k |-> state[i][1], v |-> state[i][2]]]
      \o <<[t |-> "}"]>>

\* whether JSON.parse(text) returns (it throws on anything cut short or with
\* text after the closing brace)
Parses(text) ==
    /\ Len(text) >= 2
    /\ text[1].t = "{"
    /\ text[Len(text)].t = "}"
    /\ \A i \in 2..(Len(text) - 1) : text[i].t = "entry"

JSONparse(text) == [i \in 1..(Len(text) - 2) |-> <<text[i + 1].k, text[i + 1].v>>]

\* what a read that ignored the parse error would salvage
loadState_nocatch(file, ioError) ==
    [i \in 1..Len(SelectSeq(file.text, LAMBDA tok : tok.t = "entry")) |->
        <<SelectSeq(file.text, LAMBDA tok : tok.t = "entry")[i].k,
          SelectSeq(file.text, LAMBDA tok : tok.t = "entry")[i].v>>]

\* loadState: readFile + JSON.parse, {} on any exception
loadState(file, ioError) ==
    IF ioError \/ ~file.exists \/ ~Parses(file.text)
    THEN EmptyObj
    ELSE JSONparse(file.text)

\* why loadState took the catch branch, "ok" when it did not
ReadKind(file, ioError) ==
    IF ioError THEN "unreadable"
    ELSE IF ~file.exists THEN "missing"
    ELSE IF ~Parses(file.text) THEN "unparseable"
    ELSE "ok"

\* open(path, 'w'): the file exists and is empty
OpenTruncate(file) == [exists |-> TRUE, text |-> << >>]

\* write(fd, data) at offset 0: bytes beyond the data stay
WriteAt0(file, text) ==
    [exists |-> TRUE,
     text |-> text \o SubSeq(file.text, Len(text) + 1, Len(file.text))]

\* the mapping a reader of the file gets right now
Persisted == loadState(disk, FALSE)

-----------------------------------------------------------------------------
(* EventSubManager *)

IdleCall ==
    [pc |-> "idle", origin |-> None, args |-> None,
     key |-> << >>, loaded |-> EmptyObj, state |-> EmptyObj,
     read |-> None, sub |-> None, before |-> EmptyObj, remote |-> 0,
     writes |-> 0, scheduled |-> 0, overlap |-> FALSE]

Free(i)   == calls[i].pc = "idle"
Active(i) == ~Free(i)

\* the slot a new run takes
NextSlot(i) == Free(i) /\ \A j \in Slots : j < i => Active(j)

\* a run starts: the synchronous part of ensureSubscription up to the
\* await of loadState
Start(i, origin, args) ==
    [j \in Slots |->
        IF j = i
        THEN [IdleCall EXCEPT !.pc = "load", !.origin = origin, !.args = args,
                              !.overlap = \E o \in Slots \ {i} : Active(o)]
        ELSE IF Active(j) THEN [calls[j] EXCEPT !.overlap = TRUE]
        ELSE calls[j]]

\* what is left of a run once it has returned or thrown: how it ended
\* ("ok": returned; "rejected": the caller's promise rejected; "logged":
\* the timer callback's .catch logged the error) and what it did
Ended(c, outcome, error) ==
    [op |-> "ensureSubscription", origin |-> c.origin, key |-> c.key,
     outcome |-> outcome, error |-> error, remote |-> c.remote,
     writes |-> c.writes, scheduled |-> c.scheduled, overlap |-> c.overlap]

\* a stored record that takes its id from the wrong place
StoredSubscription_wrongId(sub, args) ==
    [id |-> args.type, type |-> args.type, condition |-> args.condition,
     expires_at |-> sub.expires_at]

\* the record ensureSubscription stores for sub
StoredSubscription(sub, args) ==
    [id |-> sub.id, type |-> args.type, condition |-> args.condition,
     expires_at |-> sub.expires_at]

\* a freshness test with the comparison the wrong way round
IsFresh_inverted(state, key, t) ==
    /\ ObjHas(state, key)
    /\ GetTime(ObjGet(state, key).expires_at) - t < LeadTimeMs

\* existing && new Date(existing.expires_at).getTime() - now > 60 * 1000
IsFresh(state, key, t) ==
    /\ ObjHas(state, key)
    /\ GetTime(ObjGet(state, key).expires_at) - t > LeadTimeMs

\* a renewal that is not deferred at all
RenewalTimer_immediate(sub, args, t) == [due |-> t, args |-> args]

\* a renewal scheduled for the expiry itself, without the lead time
RenewalTimer_atExpiry(sub, args, t) ==
    [due  |-> t + Max(GetTime(sub.expires_at) - t, 0), args |-> args]

\* scheduleRenewal: the timer setTimeout registers
RenewalTimer(sub, args, t) ==
    [due  |-> t + Max(GetTime(sub.expires_at) - t - LeadTimeMs, 0),
     args |-> args]

\* a caller invokes ensureSubscription
Call(i, argSets) ==
    /\ NextSlot(i)
    /\ explicit < MaxExplicit
    /\ \E args \in argSets : calls' = Start(i, "caller", args)
    /\ explicit' = explicit + 1
    /\ UNCHANGED <<now, disk, timers, ensured, chatVars, last>>

\* a renewal timer fires and its callback invokes ensureSubscription
Fire(i) ==
    /\ NextSlot(i)
    /\ \E t \in BagToSet(timers) :
          /\ t.due <= now
          /\ timers' = timers (-) SetToBag({t})
          /\ calls' = Start(i, "timer", t.args)
    /\ UNCHANGED <<now, disk, explicit, ensured, chatVars, last>>

\* fs.readFile completes (or fails) and loadState returns
Load(i, ioErrors) ==
    /\ calls[i].pc = "load"
    /\ \E ioError \in ioErrors :
          calls' = [calls EXCEPT ![i].pc = "check",
                                 ![i].loaded = loadState(disk, ioError),
                                 ![i].state = loadState(disk, ioError),
                                 ![i].read = ReadKind(disk, ioError)]
    /\ UNCHANGED <<now, disk, timers, explicit, ensured, chatVars, last>>

\* lines 33-43: the key, the freshness test, and either the early return
\* with a renewal timer or the request to the Remote Event API
Check(i) ==
    /\ calls[i].pc = "check"
    /\ LET c   == calls[i]
           key == makeKey(c.args.type, c.args.condition)
       IN IF IsFresh(c.state, key, now)
          THEN /\ timers' = timers (+)
                     SetToBag({RenewalTimer(ObjGet(c.state, key), c.args, now)})
               /\ calls' = [calls EXCEPT ![i] = IdleCall]
               /\ last' = Ended([c EXCEPT !.key = key, !.scheduled = c.scheduled + 1],
                                "ok", None)
               /\ ensured' = ensured \cup {key}
          ELSE /\ calls' = [calls EXCEPT ![i].pc = "remote", ![i].key = key,
                                         ![i].read = None,
                                         ![i].remote = c.remote + 1]
               /\ UNCHANGED <<timers, ensured, last>>
    /\ UNCHANGED <<now, disk, explicit, chatVars>>

\* createEventSubSubscription resolves; lines 44-46 up to the writeFile
RemoteOk(i, ttls) ==
    /\ calls[i].pc = "remote"
    /\ \E id \in Ids, ttl \in ttls :
          LET c   == calls[i]
              sub == [id |-> id, expires_at |-> ToISO(now + ttl)]
          IN calls' = [calls EXCEPT
                 ![i].pc = "open",
                 ![i].sub = sub,
                 ![i].state = ObjSet(c.state, c.key, StoredSubscription(sub, c.args))]
    /\ UNCHANGED <<now, disk, timers, explicit, ensured, chatVars, last>>

\* a timer callback without the .catch: the rejection is nobody's
Thrown_uncaught(c, why) == Ended(c, "rejected", why)

\* a failed run that hides its error from the caller
Thrown_swallowed(c, why) == Ended(c, "logged", why)

\* how a failed run ends: ensureSubscription has no try/catch, so the
\* caller's promise rejects; the timer callback's .catch logs the error
Thrown(c, why) ==
    Ended(c, IF c.origin = "caller" THEN "rejected" ELSE "logged", why)

\* createEventSubSubscription rejects
RemoteFail(i) ==
    /\ calls[i].pc = "remote"
    /\ calls' = [calls EXCEPT ![i] = IdleCall]
    /\ last' = Thrown(calls[i], "remote")
    /\ UNCHANGED <<now, disk, timers, explicit, ensured, chatVars>>

\* fs.writeFile opens the state file with flag 'w'
SaveOpen(i) ==
    /\ calls[i].pc = "open"
    /\ disk' = OpenTruncate(disk)
    /\ calls' = [calls EXCEPT ![i].pc = "write", ![i].before = Persisted]
    /\ UNCHANGED <<now, timers, explicit, ensured, chatVars, last>>

\* fs.writeFile cannot open the state file
SaveFail(i) ==
    /\ calls[i].pc = "open"
    /\ calls' = [calls EXCEPT ![i] = IdleCall]
    /\ last' = Thrown(calls[i], "store")
    /\ UNCHANGED <<now, disk, timers, explicit, ensured, chatVars>>

\* fs.writeFile writes the text
SaveWrite(i) ==
    /\ calls[i].pc = "write"
    /\ disk' = WriteAt0(disk, StringifyState(calls[i].state))
    /\ calls' = [calls EXCEPT ![i].pc = "saved", ![i].before = EmptyObj,
                              ![i].writes = calls[i].writes + 1]
    /\ UNCHANGED <<now, timers, explicit, ensured, chatVars, last>>

\* lines 47-48: saveState has returned; log and schedule the renewal
Finish(i) ==
    /\ calls[i].pc = "saved"
    /\ LET c == calls[i]
       IN /\ timers' = timers (+) SetToBag({RenewalTimer(c.sub, c.args, now)})
          /\ calls' = [calls EXCEPT ![i] = IdleCall]
          /\ last' = Ended([c EXCEPT !.scheduled = c.scheduled + 1], "ok", None)
          /\ ensured' = ensured \cup {c.key}
    /\ UNCHANGED <<now, disk, explicit, chatVars>>

\* time passes
Tick ==
    /\ now + TickMs <= MaxTime
    /\ now' = now + TickMs
    /\ UNCHANGED <<subVars, chatVars, last>>

-----------------------------------------------------------------------------
(* process.env and the fromEnv factories *)

\* an optional property: undefined, or the value
Undefined == << >>
Some(x)   == <<x>>

ClientVars == {"TWITCH_CLIENT_ID", "TWITCH_CLIENT_SECRET"}
ChatEnvVars == {"TWITCH_CHAT_USERNAME", "TWITCH_CHAT_TOKEN", "TWITCH_CHAT_CHANNELS"}
EnvNames == ClientVars \cup ChatEnvVars

\* values of a variable: unset, the empty string, or some text
Str_x == <<"x">>
Str_channels == <<"#", "a", ",", " ", "#", "b">>

EnvValues(name) ==
    {Undefined, Some(<< >>),
     Some(IF name = "TWITCH_CHAT_CHANNELS" THEN Str_channels ELSE Str_x)}

Envs == {e \in [EnvNames -> {Undefined, Some(<< >>), Some(Str_x), Some(Str_channels)}] :
            \A name \in EnvNames : e[name] \in EnvValues(name)}

\* the environment of a configured process
DefaultEnv == [name \in EnvNames |-> CHOOSE v \in EnvValues(name) :
                                        v # Undefined /\ v[1] # << >>]

\* a test that takes the empty string for a value
Falsy_unsetOnly(v) == v = Undefined

\* !v for a string | undefined
Falsy(v) == v = Undefined \/ v[1] = << >>

\* str.split(',')
RECURSIVE splitComma(_)
splitComma(str) ==
    IF \A i \in 1..Len(str) : str[i] # ","
    THEN <<str>>
    ELSE LET i == CHOOSE n \in 1..Len(str) :
                     str[n] = "," /\ \A m \in 1..(n - 1) : str[m] # ","
         IN <<SubSeq(str, 1, i - 1)>> \o splitComma(SubSeq(str, i + 1, Len(str)))

\* str.trim()
RECURSIVE trim(_)
trim(str) ==
    IF str = << >> THEN str
    ELSE IF str[1] = " " THEN trim(Tail(str))
    ELSE IF str[Len(str)] = " " THEN trim(SubSeq(str, 1, Len(str) - 1))
    ELSE str

\* what a factory call leaves: the error thrown, or the instance returned
Threw(op, message) ==
    [op |-> op, threw |-> TRUE, error |-> message, instance |-> Undefined]

Returned(op, instance) ==
    [op |-> op, threw |-> FALSE, error |-> None, instance |-> Some(instance)]

\* TwitchClient.fromEnv
TwitchClient_fromEnv ==
    /\ last' = IF Falsy(env["TWITCH_CLIENT_ID"]) \/ Falsy(env["TWITCH_CLIENT_SECRET"])
               THEN Threw("TwitchClient.fromEnv", "Missing Twitch credentials")
               ELSE Returned("TwitchClient.fromEnv",
                             [clientId |-> env["TWITCH_CLIENT_ID"][1],
                              clientSecret |-> env["TWITCH_CLIENT_SECRET"][1]])
    /\ UNCHANGED <<now, subVars, chatVars>>

\* ChatBot.fromEnv
ChatBot_fromEnv ==
    /\ last' = IF \/ Falsy(env["TWITCH_CHAT_USERNAME"])
                  \/ Falsy(env["TWITCH_CHAT_TOKEN"])
                  \/ Falsy(env["TWITCH_CHAT_CHANNELS"])
               THEN Threw("ChatBot.fromEnv", "Missing chat bot credentials")
               ELSE LET parts == splitComma(env["TWITCH_CHAT_CHANNELS"][1])
                    IN Returned("ChatBot.fromEnv",
                                [username |-> env["TWITCH_CHAT_USERNAME"][1],
                                 token |-> env["TWITCH_CHAT_TOKEN"][1],
                                 channels |-> [n \in 1..Len(parts) |-> trim(parts[n])]])
    /\ UNCHANGED <<now, subVars, chatVars>>

-----------------------------------------------------------------------------
(* The manager's specification *)

\* a state file cut short by an earlier crash
TornFile ==
    [exists |-> TRUE,
     text |-> <<[t |-> "{"],
                [t |-> "entry",
                 k |-> makeKey("stream.online", CondB),
                 v |-> StoredSubscription([id |-> "sub1", expires_at |-> ToISO(StartMs + 120000)],
                                          Args("stream.online", CondB))]>>]

NoFile == [exists |-> FALSE, text |-> << >>]

InitChat ==
    /\ commands = {}
    /\ lastRun = {}
    /\ accepted = {}
    /\ registered = 0
    /\ regLog = << >>
    /\ env = DefaultEnv
    /\ last = [op |-> None]

InitSub ==
    /\ calls = [i \in Slots |-> IdleCall]
    /\ timers = EmptyBag
    /\ explicit = 0
    /\ ensured = {}

Init ==
    /\ now = StartMs
    /\ disk \in {NoFile, TornFile}
    /\ InitSub
    /\ InitChat

Next ==
    \/ \E i \in Slots : Call(i, ArgSets)
    \/ \E i \in Slots : Fire(i)
    \/ \E i \in Slots : Load(i, BOOLEAN)
    \/ \E i \in Slots : Check(i)
    \/ \E i \in Slots : RemoteOk(i, TTLs)
    \/ \E i \in Slots : RemoteFail(i)
    \/ \E i \in Slots : SaveOpen(i)
    \/ \E i \in Slots : SaveFail(i)
    \/ \E i \in Slots : SaveWrite(i)
    \/ \E i \in Slots : Finish(i)
    \/ Tick

Spec == Init /\ [][Next]_vars

-----------------------------------------------------------------------------
(* The manager when nothing fails and timers fire when due: the Remote
   Event API and the store always succeed, time does not pass a timer that
   is due, and every pending step (an I/O completion, a continuation, a due
   timer) is eventually taken. *)

DueTimers == {t \in BagToSet(timers) : t.due <= now}

\* time passes, but not past a timer that is due
TickDue ==
    /\ DueTimers = {}
    /\ Tick

NextLive ==
    \/ \E i \in Slots : Call(i, LiveArgSets)
    \/ \E i \in Slots : Fire(i)
    \/ \E i \in Slots : Load(i, {FALSE})
    \/ \E i \in Slots : Check(i)
    \/ \E i \in Slots : RemoteOk(i, TTLs)
    \/ \E i \in Slots : SaveOpen(i)
    \/ \E i \in Slots : SaveWrite(i)
    \/ \E i \in Slots : Finish(i)
    \/ TickDue

FairLive ==
    /\ WF_vars(TickDue)
    /\ \A i \in Slots :
          /\ WF_vars(Fire(i))
          /\ WF_vars(Load(i, {FALSE}))
          /\ WF_vars(Check(i))
          /\ WF_vars(RemoteOk(i, TTLs))
          /\ WF_vars(SaveOpen(i))
          /\ WF_vars(SaveWrite(i))
          /\ WF_vars(Finish(i))

SpecLive == Init /\ [][NextLive]_vars /\ FairLive

-----------------------------------------------------------------------------
(* The manager called for two different subscriptions, with nothing
   failing: every run that starts ends successfully. *)

RaceArgSets == {Args("channel.follow", CondBM), Args("stream.online", CondB)}

\* a state file an earlier process left, with one record
SavedFile ==
    [exists |-> TRUE,
     text |-> StringifyState(
                 ObjSet(EmptyObj, makeKey("stream.online", CondB),
                        StoredSubscription([id |-> "sub1",
                                            expires_at |-> ToISO(StartMs + 120000)],
                                           Args("stream.online", CondB))))]

InitRace ==
    /\ now = StartMs
    /\ disk \in {NoFile, SavedFile}
    /\ InitSub
    /\ InitChat

NextRace ==
    \/ \E i \in Slots : Call(i, RaceArgSets)
    \/ \E i \in Slots : Fire(i)
    \/ \E i \in Slots : Load(i, {FALSE})
    \/ \E i \in Slots : Check(i)
    \/ \E i \in Slots : RemoteOk(i, TTLs)
    \/ \E i \in Slots : SaveOpen(i)
    \/ \E i \in Slots : SaveWrite(i)
    \/ \E i \in Slots : Finish(i)
    \/ Tick

SpecRace == InitRace /\ [][NextRace]_vars

-----------------------------------------------------------------------------
(* Strings the dispatcher takes apart: sequences of characters *)

Str_ping    == <<"p", "i", "n", "g">>
Str_PING    == <<"P", "I", "N", "G">>
Str_modonly == <<"m", "o", "d", "o", "n", "l", "y">>

\* String.prototype.toLowerCase
LowerChar(ch) ==
    CASE ch = "P" -> "p" [] ch = "I" -> "i" [] ch = "N" -> "n" [] ch = "G" -> "g"
      [] OTHER -> ch

toLowerCase(str) == [i \in 1..Len(str) |-> LowerChar(str[i])]

\* message.startsWith('!')
startsWithBang(message) == Len(message) >= 1 /\ message[1] = "!"

\* str.split(' '): cut at every single space
RECURSIVE split(_)
split(str) ==
    IF \A i \in 1..Len(str) : str[i] # " "
    THEN <<str>>
    ELSE LET i == CHOOSE n \in 1..Len(str) :
                     str[n] = " " /\ \A m \in 1..(n - 1) : str[m] # " "
         IN <<SubSeq(str, 1, i - 1)>> \o split(SubSeq(str, i + 1, Len(str)))

\* parts.join(' ')
RECURSIVE join(_)
join(parts) ==
    IF parts = << >> THEN << >>
    ELSE IF Len(parts) = 1 THEN parts[1]
    ELSE parts[1] \o <<" ">> \o join(Tail(parts))

-----------------------------------------------------------------------------
(* ChatBot *)

\* a JavaScript Map: a set of <<key, value>> pairs, one pair per key
EmptyMap == {}

MapHas(m, k) == \E p \in m : p[1] = k

MapGet(m, k) == (CHOOSE p \in m : p[1] = k)[2]

MapSet(m, k, v) == {p \in m : p[1] # k} \cup {<<k, v>>}

Channel == "#chan"

\* tmi.ChatUserstate
User(id, name, badges, mod) ==
    [id |-> id, username |-> name, badges |-> badges, mod |-> mod]

Users == { User("1", "alice", {"subscriber"}, FALSE),
           User("2", "bob", {"vip"}, TRUE) }

\* the bot's own account, a moderator of its channel
BotUser == User("9", "tester", {}, TRUE)

\* who a message comes from and the self flag tmi sets for it: true for
\* the messages the bot's own account sent
Deliveries == {<<user, FALSE>> : user \in Users} \cup {<<BotUser, TRUE>>}

Options(cooldownMs, roles) == [cooldownMs |-> cooldownMs, roles |-> roles]

\* the registrations tried: a command as written, its handler, its options
Registrations ==
    { <<Str_ping, "h1", Options(Some(1000), Undefined)>>,
      <<Str_PING, "h2", Options(Some(1000), Some({"broadcaster", "mod"}))>>,
      <<Str_modonly, "h3", Options(Undefined, Some({"mod"}))>> }

Messages == { <<"!">> \o Str_ping,
              <<"!">> \o Str_PING,
              <<"!">> \o Str_ping \o <<" ", " ", "a", " ", "b">>,
              <<"!">> \o Str_modonly,
              Str_ping }

\* a registry that keeps the first registration of a name
registerCommand_keepFirst(command, handler, options) ==
    /\ registered < MaxRegister
    /\ commands' = IF MapHas(commands, toLowerCase(command)) THEN commands
                   ELSE MapSet(commands, toLowerCase(command),
                               [handler |-> handler, options |-> options])
    /\ registered' = registered + 1
    /\ regLog' = Append(regLog, [command |-> command, handler |-> handler,
                                 options |-> options])
    /\ last' = [op |-> "registerCommand", command |-> command,
                handler |-> handler, options |-> options]
    /\ UNCHANGED <<now, subVars, lastRun, accepted, env>>

\* registerCommand
registerCommand(command, handler, options) ==
    /\ registered < MaxRegister
    /\ commands' = MapSet(commands, toLowerCase(command),
                          [handler |-> handler, options |-> options])
    /\ registered' = registered + 1
    /\ regLog' = Append(regLog, [command |-> command, handler |-> handler,
                                 options |-> options])
    /\ last' = [op |-> "registerCommand", command |-> command,
                handler |-> handler, options |-> options]
    /\ UNCHANGED <<now, subVars, lastRun, accepted, env>>

\* a resolution that ranks the VIP badge above the mod flag
getRole_vipFirst(user) ==
    IF "broadcaster" \in user.badges THEN "broadcaster"
    ELSE IF "vip" \in user.badges THEN "vip"
    ELSE IF user.mod THEN "mod"
    ELSE IF "subscriber" \in user.badges THEN "subscriber"
    ELSE "viewer"

\* getRole
getRole(user) ==
    IF "broadcaster" \in user.badges THEN "broadcaster"
    ELSE IF user.mod THEN "mod"
    ELSE IF "vip" \in user.badges THEN "vip"
    ELSE IF "subscriber" \in user.badges THEN "subscriber"
    ELSE "viewer"

\* a guard that forgets the bot's own messages
Ignored_prefixOnly(message, self) == ~startsWithBang(message)

\* line 63: self || !message.startsWith('!')
Ignored(message, self) == self \/ ~startsWithBang(message)

\* a role gate that lets everyone through
RoleRejected_never(options, role) == FALSE

\* line 71: entry.options.roles && !entry.options.roles.includes(role)
RoleRejected(options, role) ==
    options.roles # Undefined /\ role \notin options.roles[1]

\* line 76: if (entry.options.cooldownMs)
HasCooldown(options) ==
    options.cooldownMs # Undefined /\ options.cooldownMs[1] # 0

\* line 77: `${userstate['user-id']}:${cmd}`, cmd as typed
ThrottleKey(user, cmd) == <<user.id, ":">> \o cmd

\* line 78: this.lastRun.get(key) || 0
LastRunOf(ledger, key) == IF MapHas(ledger, key) THEN MapGet(ledger, key) ELSE 0

\* line 80: now - last < entry.options.cooldownMs
Throttled(ledger, options, user, cmd, t) ==
    /\ HasCooldown(options)
    /\ t - LastRunOf(ledger, ThrottleKey(user, cmd)) < options.cooldownMs[1]

\* what one handleMessage does: whether the message was counted, what was
\* looked up, whether the handler ran and with which arguments, and the
\* ledger afterwards
Dispatch(channel, user, message, self) ==
    LET parts == split(Tail(message))
        cmd   == parts[1]
        args  == join(Tail(parts))
        name  == toLowerCase(cmd)
        quiet == [op |-> "handleMessage", channel |-> channel, user |-> user,
                  message |-> message, self |-> self, counted |-> FALSE,
                  found |-> FALSE, ran |-> FALSE, handler |-> None,
                  args |-> << >>, ledger |-> lastRun]
    IN IF Ignored(message, self) THEN quiet
       ELSE IF ~MapHas(commands, name) THEN [quiet EXCEPT !.counted = TRUE]
       ELSE LET entry == MapGet(commands, name)
                seen  == [quiet EXCEPT !.counted = TRUE, !.found = TRUE]
            IN IF RoleRejected(entry.options, getRole(user)) THEN seen
               ELSE IF Throttled(lastRun, entry.options, user, cmd, now) THEN seen
               ELSE [seen EXCEPT
                       !.ran = TRUE, !.handler = entry.handler, !.args = args,
                       !.ledger = IF HasCooldown(entry.options)
                                  THEN MapSet(lastRun, ThrottleKey(user, cmd), now)
                                  ELSE lastRun]

\* the lowercased command name of a message that starts with '!'
NameOf(message) == toLowerCase(split(Tail(message))[1])

\* handleMessage
handleMessage(channel, user, message, self) ==
    LET d == Dispatch(channel, user, message, self)
    IN /\ lastRun' = d.ledger
       /\ last' = [d EXCEPT !.ledger = {}]
       /\ accepted' = IF d.ran /\ HasCooldown(MapGet(commands, NameOf(message)).options)
                      THEN MapSet(accepted, <<user.id, NameOf(message)>>, now)
                      ELSE accepted
       /\ UNCHANGED <<now, subVars, commands, registered, regLog, env>>

\* time passes
TickChat ==
    /\ now + ChatTickMs <= StartMs + MaxChatTicks * ChatTickMs
    /\ now' = now + ChatTickMs
    /\ last' = [op |-> "tick"]
    /\ UNCHANGED <<subVars, chatVars>>

InitSpecChat ==
    /\ now = StartMs
    /\ disk = NoFile
    /\ InitSub
    /\ InitChat

NextChat ==
    \/ \E r \in Registrations : registerCommand(r[1], r[2], r[3])
    \/ \E d \in Deliveries, message \in Messages :
          handleMessage(Channel, d[1], message, d[2])
    \/ TickChat

SpecChat == InitSpecChat /\ [][NextChat]_vars

-----------------------------------------------------------------------------
(* The factories' specification: any environment, then fromEnv calls *)

InitSpecEnv ==
    /\ now = StartMs
    /\ disk = NoFile
    /\ InitSub
    /\ commands = {}
    /\ lastRun = {}
    /\ accepted = {}
    /\ registered = 0
    /\ regLog = << >>
    /\ env \in Envs
    /\ last = [op |-> None]

NextEnv ==
    \/ TwitchClient_fromEnv
    \/ ChatBot_fromEnv

SpecEnv == InitSpecEnv /\ [][NextEnv]_vars

-----------------------------------------------------------------------------
(* Role resolution on its own: any userstate, then getRole *)

\* badges a userstate can carry (present with a truthy value)
BadgeNames == {"broadcaster", "moderator", "vip", "subscriber", "founder"}

AllUsers == {User("1", "alice", badges, mod) : badges \in SUBSET BadgeNames,
                                              mod \in BOOLEAN}

\* the role check of handleMessage, line 70, applied to the userstate at hand
ResolveRole ==
    /\ last.op = "userstate"
    /\ last' = [op |-> "getRole", user |-> last.user, role |-> getRole(last.user)]
    /\ UNCHANGED <<now, subVars, chatVars>>

InitSpecRole ==
    /\ now = StartMs
    /\ disk = NoFile
    /\ InitSub
    /\ commands = {}
    /\ lastRun = {}
    /\ accepted = {}
    /\ registered = 0
    /\ regLog = << >>
    /\ env = DefaultEnv
    /\ \E user \in AllUsers : last = [op |-> "userstate", user |-> user]

NextRole == ResolveRole

SpecRole == InitSpecRole /\ [][NextRole]_vars

-----------------------------------------------------------------------------
(* Claims about the subscription manager *)

HasKey(i) == calls[i].pc \in {"remote", "open", "write", "saved"}

\* the run in slot i takes the step from pc p to pc q
Moves(i, p, q) == calls[i].pc = p /\ calls'[i].pc = q

EndedRun == last.op = "ensureSubscription"

\* C1: key derivation is independent of the order in which the condition
\* was built: two runs with the same event type and the same set of
\* condition key/value pairs derive the same key (and so the same store
\* entry).
C1_KeyIgnoresInsertionOrder ==
    \A i, j \in Slots :
        (/\ HasKey(i) /\ HasKey(j)
         /\ calls[i].args.type = calls[j].args.type
         /\ ObjPairs(calls[i].args.condition) = ObjPairs(calls[j].args.condition))
        => calls[i].key = calls[j].key

\* the mapping loadState returned holds a record for the run's key that
\* expires more than 60 000 ms after t
LoadedFresh(c, t) ==
    LET key == makeKey(c.args.type, c.args.condition)
    IN /\ ObjHas(c.loaded, key)
       /\ GetTime(ObjGet(c.loaded, key).expires_at) - t > 60000

\* C2: a run that finds, in the mapping it loaded, a record for its key
\* expiring more than 60 000 ms after now returns without a remote creation
\* call; no run makes more than one remote call, so of two calls in a row
\* with the same arguments, the second made while the first one's record is
\* fresh, only the first calls the Remote Event API.
C2_FreshRecordNoRemoteCall ==
    /\ [](\A i \in Slots : calls[i].remote <= 1)
    /\ [][\A i \in Slots :
            (calls[i].pc = "check" /\ calls'[i].pc # "check" /\ LoadedFresh(calls[i], now))
            => (/\ calls'[i].pc = "idle"
                /\ last'.op = "ensureSubscription"
                /\ last'.outcome = "ok"
                /\ last'.remote = 0)]_vars

\* two caller-initiated calls, the second one not overlapping anything,
\* ended with no remote call on a record the first one had created
C2_Witness ==
    /\ EndedRun /\ last.origin = "caller" /\ last.outcome = "ok"
    /\ last.remote = 0 /\ ~last.overlap
    /\ explicit = 2
    /\ ObjHas(Persisted, last.key)
    /\ \A i \in Slots : Free(i)

\* C3: when a run that created a subscription returns, not having
\* overlapped any other run, the persisted mapping is the mapping it loaded
\* with the entry of its key set to {id, type, condition, expires_at} of the
\* first descriptor the Remote Event API returned, every other entry
\* unchanged.
C3_PersistedAfterCreation ==
    [][\A i \in Slots :
          (Moves(i, "saved", "idle") /\ ~calls[i].overlap)
          => LET c == calls[i]
             IN /\ last'.outcome = "ok" /\ last'.remote = 1
                /\ ObjKeys(Persisted') = ObjKeys(c.loaded) \cup {c.key}
                /\ ObjGet(Persisted', c.key) =
                      [id |-> c.sub.id, type |-> c.args.type,
                       condition |-> c.args.condition,
                       expires_at |-> c.sub.expires_at]
                /\ \A k \in ObjKeys(c.loaded) \ {c.key} :
                      ObjGet(Persisted', k) = ObjGet(c.loaded, k)]_vars

\* a run that did not overlap another one has created a second entry
C3_Witness ==
    /\ EndedRun /\ last.outcome = "ok" /\ last.remote = 1 /\ ~last.overlap
    /\ Len(Persisted) = 2
    /\ ObjHas(Persisted, last.key)

\* C8: a load that runs while a save is between its steps returns the
\* mapping persisted before that save or the mapping being saved, never an
\* empty or partial one.
C8_LoadNeverSeesHalfWrittenState ==
    [][\A i, j \in Slots :
          (/\ Moves(i, "load", "check")
           /\ calls'[i].read # "unreadable"
           /\ j # i
           /\ calls[j].pc = "write")
          => calls'[i].loaded \in {calls[j].before, calls[j].state}]_vars

\* C9: loadState never raises: with the state file missing, unreadable or
\* not parseable it returns the empty mapping, and the run goes on to a
\* remote creation as if no record existed.
C9_LoadDegradesToEmpty ==
    [][\A i \in Slots :
          /\ (/\ Moves(i, "load", "check")
              /\ (~disk.exists \/ ~Parses(disk.text)
                    \/ calls'[i].read = "unreadable"))
             => (/\ calls'[i].loaded = EmptyObj
                 /\ calls'[i].state = EmptyObj
                 /\ calls'[i].read # "ok")
          /\ (calls[i].pc = "check" /\ calls'[i].pc # "check" /\ calls[i].read # "ok")
             => (/\ calls'[i].pc = "remote"
                 /\ calls'[i].remote = 1
                 /\ calls'[i].state = EmptyObj)]_vars

\* a run is at the Remote Event API although the state file on disk, there
\* since the start, cannot be parsed
C9_Witness ==
    /\ disk = TornFile
    /\ \E i \in Slots : /\ calls[i].pc = "remote"
                        /\ calls[i].loaded = EmptyObj

\* C10: when the Remote Event API fails in a caller-initiated run, the
\* caller's promise rejects with that error, the run has made exactly one
\* remote call, and it neither writes the state file nor schedules a timer.
C10_ExplicitRemoteFailure ==
    [][\A i \in Slots :
          (Moves(i, "remote", "idle") /\ calls[i].origin = "caller")
          => (/\ last'.op = "ensureSubscription"
              /\ last'.outcome = "rejected" /\ last'.error = "remote"
              /\ last'.remote = 1 /\ last'.writes = 0 /\ last'.scheduled = 0
              /\ disk' = disk
              /\ timers' = timers)]_vars

\* a caller's run has been rejected by a remote failure
C10_Witness ==
    /\ EndedRun /\ last.origin = "caller"
    /\ last.outcome = "rejected" /\ last.error = "remote"

-----------------------------------------------------------------------------
(* Auto-renewal (checked under SpecLive) *)

KeyOf(args) == makeKey(args.type, args.condition)

TimerPending(k) == \E t \in BagToSet(timers) : KeyOf(t.args) = k

RenewalInFlight(k) ==
    \E i \in Slots : /\ Active(i)
                     /\ calls[i].origin = "timer"
                     /\ KeyOf(calls[i].args) = k

\* the expiry of the record persisted for k (0 when there is none)
StoredExpiry(k) ==
    IF ObjHas(Persisted, k) THEN GetTime(ObjGet(Persisted, k).expires_at) ELSE 0

\* every expiry a record can carry
Expiries == {StartMs + n * TickMs + ttl : n \in 0..MaxTicks, ttl \in TTLs}

\* C4 as claimed: once ensureSubscription has succeeded for a key, a
\* renewal timer is pending for that key in every state.
C4_TimerAlwaysPending == \A k \in ensured : TimerPending(k)

\* the timer the run in slot i sets when it ends with a record expiring at
\* expires_at: due max(expiry - 60 000 - now, 0) from now, same arguments
SetsTimer(i, expires_at) ==
    timers' = timers (+) SetToBag({[due  |-> now + Max(GetTime(expires_at) - now - 60000, 0),
                                    args |-> calls[i].args]})

\* C4, amended: when nothing fails and timers fire when due, then once
\* ensureSubscription has succeeded for a key, a renewal timer is pending
\* for the key or the run a fired timer started for it is still in flight;
\* every run that returns sets a timer due max(expiry - 60 000 - now, 0)
\* from now with its own (type, condition, callback, secret), and a firing
\* timer starts a run with the timer's arguments; and a persisted record
\* that is within 60 000 ms of its expiry is eventually replaced by one
\* with a later expiry.
C4_RenewalChain ==
    /\ [](\A k \in ensured : TimerPending(k) \/ RenewalInFlight(k))
    /\ [][\A i \in Slots :
            /\ (calls[i].pc = "check" /\ calls'[i].pc = "idle")
               => SetsTimer(i, ObjGet(calls[i].loaded, KeyOf(calls[i].args)).expires_at)
            /\ Moves(i, "saved", "idle")
               => SetsTimer(i, calls[i].sub.expires_at)
            /\ (Moves(i, "idle", "load") /\ calls'[i].origin = "timer")
               => \E t \in DueTimers :
                     /\ timers' = timers (-) SetToBag({t})
                     /\ calls'[i].args = t.args]_vars
    /\ \A k \in {KeyOf(a) : a \in LiveArgSets} : \A e \in Expiries :
          (k \in ensured /\ StoredExpiry(k) = e /\ e - now <= 60000)
             ~> (StoredExpiry(k) > e)

\* a run started by a timer has replaced the record by a fresh one
C4_Witness ==
    /\ EndedRun /\ last.origin = "timer" /\ last.outcome = "ok" /\ last.remote = 1
    /\ StoredExpiry(last.key) - now > 60000
    /\ TimerPending(last.key)

-----------------------------------------------------------------------------
(* Claims about the chat dispatcher *)

\* the command token of each message that starts with '!', as typed
Tokens == [m \in {x \in Messages : startsWithBang(x)} |-> split(Tail(m))[1]]

TokenOf(message) == Tokens[message]

\* the step is a handleMessage call; its inputs and what it did are in last'
Dispatched == last'.op = "handleMessage"

\* the dispatched message passed the first check and names a registered command
NamesCommand(l) ==
    /\ ~l.self
    /\ startsWithBang(l.message)
    /\ MapHas(commands, NameOf(l.message))

EntryOf(l) == MapGet(commands, NameOf(l.message))

\* C5: a message delivered with self = true never invokes a handler and
\* never changes the throttle ledger, whatever its text and whatever is
\* registered, a registered command included.
C5_SelfMessagesIgnored ==
    [][ (Dispatched /\ last'.self) =>
           /\ ~last'.ran
           /\ last'.handler = None
           /\ lastRun' = lastRun
           /\ accepted' = accepted ]_vars

\* a self message naming a registered command that the same user could have
\* run at that moment was dispatched, and no handler ran
C5_Witness ==
    /\ last.op = "handleMessage"
    /\ last.self
    /\ startsWithBang(last.message)
    /\ MapHas(commands, NameOf(last.message))
    /\ LET entry == MapGet(commands, NameOf(last.message))
           cmd   == split(Tail(last.message))[1]
       IN /\ ~RoleRejected(entry.options, getRole(last.user))
          /\ ~Throttled(lastRun, entry.options, last.user, cmd, now)
    /\ ~last.ran

\* C6: for a command with cooldownMs = c > 0 (registered once) and a user
\* whose role is allowed, a dispatch at time now runs the handler if and
\* only if the user has no earlier accepted invocation of that command or
\* now - last >= c, last being the time of the user's most recent accepted
\* invocation of it.
C6_CooldownPerUserAndCommand ==
    [][ (Dispatched /\ NamesCommand(last') /\ registered = 1) =>
          LET entry == EntryOf(last')
              who   == <<last'.user.id, NameOf(last'.message)>>
              role  == getRole(last'.user)
          IN (/\ entry.options.cooldownMs # Undefined
              /\ entry.options.cooldownMs[1] > 0
              /\ (entry.options.roles = Undefined \/ role \in entry.options.roles[1]))
             => (last'.ran <=>
                   \/ ~MapHas(accepted, who)
                   \/ now - MapGet(accepted, who) >= entry.options.cooldownMs[1]) ]_vars

\* C7: a command with a role allow-list never runs for a user whose
\* resolved role is not in the list, and runs for a user whose role is in
\* the list unless the cooldown blocks it; a command without an allow-list
\* runs for every role unless the cooldown blocks it.
C7_RoleGating ==
    [][ (Dispatched /\ NamesCommand(last')) =>
          LET entry   == EntryOf(last')
              role    == getRole(last'.user)
              cmd     == TokenOf(last'.message)
              listed  == entry.options.roles # Undefined
              blocked == Throttled(lastRun, entry.options, last'.user, cmd, now)
          IN /\ (listed /\ role \notin entry.options.roles[1]) => ~last'.ran
             /\ (listed /\ role \in entry.options.roles[1] /\ ~blocked)
                   => (last'.ran /\ last'.handler = entry.handler)
             /\ (~listed /\ ~blocked)
                   => (last'.ran /\ last'.handler = entry.handler) ]_vars

\* a user outside the allow-list of a command registered once was turned
\* away, after a user inside the list had run the same command
C7_Witness ==
    /\ last.op = "handleMessage"
    /\ NamesCommand(last)
    /\ registered = 1
    /\ EntryOf(last).options.roles # Undefined
    /\ getRole(last.user) \notin EntryOf(last).options.roles[1]
    /\ ~last.ran
    /\ \E u \in Users :
          /\ getRole(u) \in EntryOf(last).options.roles[1]
          /\ MapHas(accepted, <<u.id, NameOf(last.message)>>)

-----------------------------------------------------------------------------
(* Failures, races and frame conditions of the subscription manager *)

\* C11: when the run a renewal timer started fails at the Remote Event
\* API, the error is caught and logged by the timer callback, the run has
\* written nothing and set no timer, the state file and the pending timers
\* are as they were; and a timer-started run only ever begins by consuming
\* a pending, due timer, so a chain that ended this way starts no run again.
C11_TimerRemoteFailure ==
    [][\A i \in Slots :
          /\ (Moves(i, "remote", "idle") /\ calls[i].origin = "timer")
             => (/\ last'.op = "ensureSubscription"
                 /\ last'.outcome = "logged" /\ last'.error = "remote"
                 /\ last'.remote = 1 /\ last'.writes = 0 /\ last'.scheduled = 0
                 /\ disk' = disk
                 /\ timers' = timers
                 /\ ensured' = ensured)
          /\ (Moves(i, "idle", "load") /\ calls'[i].origin = "timer")
             => \E t \in BagToSet(timers) :
                   /\ t.due <= now
                   /\ calls'[i].args = t.args
                   /\ timers' = timers (-) SetToBag({t})]_vars

\* the run started by the only timer failed at the Remote Event API: no
\* timer is left and nothing is running
C11_Witness ==
    /\ EndedRun /\ last.origin = "timer"
    /\ last.outcome = "logged" /\ last.error = "remote"
    /\ timers = EmptyBag
    /\ \A i \in Slots : Free(i)
    /\ ObjHas(Persisted, last.key)

-----------------------------------------------------------------------------
(* Registration, throttle ledger, roles and parsing in the chat dispatcher *)

\* letters that differ only in case
CasePairs == {<<"p", "P">>, <<"i", "I">>, <<"n", "N">>, <<"g", "G">>}

\* a and b are the same text up to letter case
EqualIgnoringCase(a, b) ==
    /\ Len(a) = Len(b)
    /\ \A i \in 1..Len(a) :
          a[i] = b[i] \/ <<a[i], b[i]>> \in CasePairs \/ <<b[i], a[i]>> \in CasePairs

\* the pairs of a registered name and a token that are equal up to case
SameName ==
    {p \in {r[1] : r \in Registrations} \X {Tokens[m] : m \in DOMAIN Tokens} :
        EqualIgnoringCase(p[1], p[2])}

\* positions in the log of the registrations whose name is token up to case
Matching(log, token) ==
    {n \in 1..Len(log) : <<log[n].command, token>> \in SameName}

\* the most recent of them
Latest(log, token) ==
    LET ms == Matching(log, token)
    IN log[CHOOSE n \in ms : \A m \in ms : m <= n]

\* C12: registration is last-write-wins by name up to letter case and
\* lookup ignores case: a dispatched message whose token is a registered
\* name in any letter case is decided by the options of the most recent
\* registration of that name and, when it runs, runs that registration's
\* handler; a message naming no registration runs nothing; and every
\* registerCommand call, a repeated one included, is taken into the log
\* without an error.
C12_LastRegistrationWins ==
    [][ /\ (Dispatched /\ ~last'.self /\ startsWithBang(last'.message)) =>
             LET token == TokenOf(last'.message)
             IN IF Matching(regLog, token) = {}
                THEN ~last'.found /\ ~last'.ran
                ELSE LET r == Latest(regLog, token)
                     IN /\ last'.found
                        /\ last'.ran <=>
                             /\ ~RoleRejected(r.options, getRole(last'.user))
                             /\ ~Throttled(lastRun, r.options, last'.user, token, now)
                        /\ last'.ran => last'.handler = r.handler
        /\ (last'.op = "registerCommand") =>
             /\ regLog' = Append(regLog, [command |-> last'.command,
                                          handler |-> last'.handler,
                                          options |-> last'.options])
             /\ MapHas(commands', toLowerCase(last'.command)) ]_vars

\* a name registered twice, with two handlers and in two letter cases, was
\* invoked in the letter case of the first registration and ran the second
\* registration's handler
C12_Witness ==
    /\ last.op = "handleMessage" /\ last.ran
    /\ Len(regLog) = 2
    /\ EqualIgnoringCase(regLog[1].command, regLog[2].command)
    /\ regLog[1].command # regLog[2].command
    /\ regLog[1].handler # regLog[2].handler
    /\ TokenOf(last.message) = regLog[1].command
    /\ last.handler = regLog[2].handler

\* C13: TwitchClient.fromEnv and ChatBot.fromEnv throw their 'Missing ...
\* credentials' error and return no instance whenever one of their
\* variables is unset or empty, and return an instance when all are set.
C13_FromEnvThrowsOnMissing ==
    LET missing(names) == \E n \in names : env[n] = Undefined \/ env[n] = Some(<< >>)
        decided(op, names, message) ==
            last.op = op =>
               IF missing(names)
               THEN last.threw /\ last.error = message /\ last.instance = Undefined
               ELSE ~last.threw /\ last.error = None /\ last.instance # Undefined
    IN /\ decided("TwitchClient.fromEnv", ClientVars, "Missing Twitch credentials")
       /\ decided("ChatBot.fromEnv", ChatEnvVars, "Missing chat bot credentials")

\* ChatBot.fromEnv threw although only one of its variables was missing,
\* and that one was set to the empty string
C13_Witness ==
    /\ last.op = "ChatBot.fromEnv" /\ last.threw
    /\ env["TWITCH_CHAT_TOKEN"] = Some(<< >>)
    /\ \A n \in ChatEnvVars \ {"TWITCH_CHAT_TOKEN"} : ~Falsy(env[n])

\* C14: with one manager, once the ensureSubscription calls made for
\* different keys have all returned successfully, however their steps
\* interleaved, the persisted mapping holds a record for each of those keys.
C14_NoLostUpdates ==
    (\A i \in Slots : Free(i)) => \A k \in ensured : ObjHas(Persisted, k)

\* C15: when two runs for the same key overlap, each makes at most one
\* remote call, and once both have returned the persisted mapping holds a
\* record for that key, with the key's type and condition and an id the
\* Remote Event API returned. (The runs of SpecRace all succeed, so with
\* nothing running and one key ensured, every run so far was for that key.)
C15_SameKeyRaceBenign ==
    /\ \A i \in Slots : calls[i].remote <= 1
    /\ (/\ \A i \in Slots : Free(i)
        /\ EndedRun /\ last.overlap
        /\ ensured = {last.key})
       => /\ ObjHas(Persisted, last.key)
          /\ ObjGet(Persisted, last.key).id \in Ids
          /\ makeKey(ObjGet(Persisted, last.key).type,
                     ObjGet(Persisted, last.key).condition) = last.key

\* C16: a run, started by a caller or by a timer, that finds a record for
\* its key expiring more than 60 000 ms after now ends without a remote
\* call and without a store write, leaves the state file as it is, and sets
\* exactly one timer, due at that record's expiry minus 60 000 ms, with its
\* own arguments; a run that returns after a creation has made exactly one
\* store write, and no run makes more than one.
C16_FreshHitOnlySchedules ==
    [][\A i \in Slots :
          /\ (calls[i].pc = "check" /\ calls'[i].pc # "check" /\ LoadedFresh(calls[i], now))
             => LET record == ObjGet(calls[i].loaded, KeyOf(calls[i].args))
                IN /\ calls'[i].pc = "idle"
                   /\ last'.op = "ensureSubscription" /\ last'.outcome = "ok"
                   /\ last'.origin = calls[i].origin
                   /\ last'.remote = 0 /\ last'.writes = 0 /\ last'.scheduled = 1
                   /\ disk' = disk
                   /\ timers' = timers (+)
                         SetToBag({[due  |-> GetTime(record.expires_at) - 60000,
                                    args |-> calls[i].args]})
          /\ Moves(i, "saved", "idle")
             => (last'.outcome = "ok" /\ last'.remote = 1 /\ last'.writes = 1)
          /\ calls'[i].writes <= 1]_vars

\* a timer that had become stale fired, and its run found the record
\* another run had renewed: no remote call, no write, one timer
C16_Witness ==
    /\ EndedRun /\ last.origin = "timer" /\ last.outcome = "ok"
    /\ last.remote = 0 /\ last.writes = 0 /\ last.scheduled = 1
    /\ StoredExpiry(last.key) - now > 60000
    /\ TimerPending(last.key)

\* C17: the throttle key is (user id, lowercased command name): every
\* ledger entry is filed under the registered, lowercased name, and a
\* handler of a command with cooldownMs = c (registered once) never runs
\* for a user less than c after it ran for that user, in whatever letter
\* case the two messages were typed.
C17_ThrottleKeyLowercased ==
    /\ [](\A p \in lastRun :
             \E u \in Users, e \in commands : p[1] = <<u.id, ":">> \o e[1])
    /\ [][ (/\ Dispatched /\ NamesCommand(last') /\ registered = 1
            /\ HasCooldown(EntryOf(last').options)
            /\ last'.ran)
           => LET who == <<last'.user.id, NameOf(last'.message)>>
              IN MapHas(accepted, who)
                    => now - MapGet(accepted, who) >= EntryOf(last').options.cooldownMs[1] ]_vars

\* the user id and the command name a ledger key was built from
KeyUser(key) == key[1]
KeyName(key) == SubSeq(key, 3, Len(key))

\* C18: a dispatch that does not reach the handler (a self message, no
\* prefix, an unknown command, a role outside the allow-list, a cooldown
\* still running) changes no ledger entry, so a throttled attempt does not
\* extend the cooldown; and every ledger entry holds the time of the last
\* invocation of its command, by its user, that reached the handler.
C18_RejectionsLeaveLedger ==
    /\ [][ (Dispatched /\ ~last'.ran) => lastRun' = lastRun ]_vars
    /\ [](\A p \in lastRun :
             LET who == <<KeyUser(p[1]), toLowerCase(KeyName(p[1]))>>
             IN MapHas(accepted, who) /\ MapGet(accepted, who) = p[2])

\* C18, the part about rejections alone: a dispatch that does not reach the
\* handler changes no ledger entry.
C18_RejectedDispatchKeepsLedger ==
    [][ (Dispatched /\ ~last'.ran) => lastRun' = lastRun ]_vars

\* the roles above viewer, highest first
Precedence == <<"broadcaster", "mod", "vip", "subscriber">>

\* the userstate carries the badge or flag of role r
Carries(user, r) == IF r = "mod" THEN user.mod ELSE r \in user.badges

\* C19: for every combination of broadcaster badge, mod flag, VIP badge and
\* subscriber badge, getRole returns the highest role in the order
\* broadcaster > mod > vip > subscriber whose badge or flag is set, and
\* viewer when none is set.
C19_RolePrecedence ==
    last.op = "getRole" =>
       LET set == {n \in 1..Len(Precedence) : Carries(last.user, Precedence[n])}
       IN IF set = {} THEN last.role = "viewer"
          ELSE last.role = Precedence[CHOOSE n \in set : \A m \in set : n <= m]

\* a user with the mod flag, the VIP badge and the subscriber badge, and no
\* broadcaster badge, was resolved to mod
C19_Witness ==
    /\ last.op = "getRole"
    /\ last.user.mod
    /\ last.user.badges = {"vip", "subscriber"}
    /\ last.role = "mod"

\* str without its leading spaces
RECURSIVE SkipSpaces(_)
SkipSpaces(str) ==
    IF str # << >> /\ str[1] = " " THEN SkipSpaces(Tail(str)) ELSE str

\* str up to its first space, and str from its first space on
RECURSIVE BeforeSpace(_)
BeforeSpace(str) ==
    IF str = << >> \/ str[1] = " " THEN << >>
    ELSE <<str[1]>> \o BeforeSpace(Tail(str))

RECURSIVE FromSpace(_)
FromSpace(str) ==
    IF str = << >> \/ str[1] = " " THEN str ELSE FromSpace(Tail(str))

\* C20: of a message starting with '!', the command name is the lowercased
\* text between the prefix and the first run of whitespace, and the handler
\* receives exactly what follows the whole run: no leading whitespace, and
\* the empty string when nothing follows.
C20_ArgsAfterWhitespaceRun ==
    (last.op = "handleMessage" /\ last.ran) =>
       LET body == Tail(last.message)
       IN /\ MapHas(commands, toLowerCase(BeforeSpace(body)))
          /\ last.args = SkipSpaces(FromSpace(body))

\* the timers pending for key k
TimersFor(k) == {t \in BagToSet(timers) : KeyOf(t.args) = k}

\* the runs a timer started for key k that have asked the Remote Event API
\* for a subscription and have not ended yet
RenewingFor(k) ==
    {i \in Slots : /\ calls[i].origin = "timer"
                   /\ HasKey(i)
                   /\ calls[i].key = k}

\* C21: renewal does not multiply: at any time at most one renewal timer
\* is pending for a key, however many ensureSubscription calls were made
\* for it, and the timers of one expiry cycle do not cause two remote
\* creation calls for the key.
C21_RenewalDoesNotMultiply ==
    \A k \in {KeyOf(a) : a \in ArgSets} :
        /\ Cardinality(TimersFor(k)) <= 1
        /\ \A t \in TimersFor(k) : CopiesIn(t, timers) = 1
        /\ Cardinality(RenewingFor(k)) <= 1

\* C21, its second part alone: no two runs started by timers for one key
\* are past their remote creation call at the same time.
C21_OneCreationPerCycle ==
    \A k \in {KeyOf(a) : a \in ArgSets} : Cardinality(RenewingFor(k)) <= 1

====
